---- MODULE Spec2Model ----
(***************************************************************************)
(* A model of the adsb.lol ping extractor: find_pings.stream_pings (the    *)
(* generator that walks the concatenated split-tar stream and yields the   *)
(* trace points that pass the geo filter), the consuming loop of           *)
(* find_pings.main / pipeline.main with its result limit, and the `cat`    *)
(* process that feeds the tar reader through a pipe.                       *)
(*                                                                         *)
(* Numbers.  Every JSON number n is held as the integer 10*n (one decimal  *)
(* digit), so 43 degrees is 430, 1000 ft is 10000 and an offset of 1.5 s   *)
(* is 15.  Record timestamps are whole seconds.                            *)
(*                                                                         *)
(* Bytes.  The tar stream is a sequence of half blocks (256 bytes): a      *)
(* 512-byte block is two units, so that a split of the archive may fall    *)
(* inside a block.                                                         *)
(***************************************************************************)
EXTENDS Integers, Sequences, FiniteSets, TLC

\* ------------------------------------------------------------------ bounds
\* Entries in one release of the archive-structure scenarios.
MaxEntries == 2
\* Points in one trace of the trace scenarios.
MaxTrace == 2
\* Largest --limit tried.
MaxLimit == 2
\* Units (half blocks) the part files hold in the pipe scenarios.
SrcLen == 5
\* Units the kernel pipe buffer holds.
PipeCap == 2
\* Units `cat` reads with one read() before it writes them.
CatChunk == 1
\* Assets (tar parts) one release declares in the download scenarios.
MaxAssets == 2
\* Largest declared size of an asset, in units of one read chunk.
MaxSize == 2
\* Times the pipeline is run over the same data directory.
MaxRuns == 2

\* ------------------------------------------------------------- JSON values
Absent == [t |-> "absent"]
Null == [t |-> "null"]
Num(n) == [t |-> "num", v |-> n]
\* An integer too large for a double (float() raises OverflowError on it).
BigInt == [t |-> "bigint"]
Bool(b) == [t |-> "bool", v |-> b]
Str(chars) == [t |-> "str", s |-> chars]
List(items) == [t |-> "list", a |-> items]
Obj(m) == [t |-> "obj", m |-> m]

\* dict.get(key): the value, or Absent when the key is missing.
Get(o, key) == IF key \in DOMAIN o.m THEN o.m[key] ELSE Absent

\* dict.get(key, default)
GetDefault(o, key, default) == IF key \in DOMAIN o.m THEN o.m[key] ELSE default

\* ---------------------------------------------------------------- strings
\* Strings are sequences of one-character strings.
Digits == <<"0", "1", "2", "3", "4", "5", "6", "7", "8", "9">>

DigitVal(c) == (CHOOSE i \in 1..10 : Digits[i] = c) - 1

IsDigit(c) == \E i \in 1..10 : Digits[i] = c

RECURSIVE StripLeft(_)
StripLeft(s) == IF s # <<>> /\ Head(s) = " " THEN StripLeft(Tail(s)) ELSE s

RECURSIVE StripRight(_)
StripRight(s) ==
  IF s # <<>> /\ s[Len(s)] = " " THEN StripRight(SubSeq(s, 1, Len(s) - 1)) ELSE s

\* str.strip()
Strip(s) == StripRight(StripLeft(s))

LowerChar(c) ==
  CASE c = "A" -> "a"
    [] c = "B" -> "b"
    [] c = "C" -> "c"
    [] OTHER -> c

\* str.lower()
Lower(s) == [i \in 1..Len(s) |-> LowerChar(s[i])]

RECURSIVE DecimalOf(_)
DecimalOf(n) ==
  IF n < 10 THEN <<Digits[n + 1]>> ELSE DecimalOf(n \div 10) \o <<Digits[(n % 10) + 1]>>

RECURSIVE DigitsValue(_)
DigitsValue(s) ==
  IF s = <<>> THEN 0 ELSE 10 * DigitsValue(SubSeq(s, 1, Len(s) - 1)) + DigitVal(s[Len(s)])

\* float() accepts a string of decimal digits, surrounding blanks ignored.
IsNumericStr(s) == Strip(s) # <<>> /\ \A i \in 1..Len(Strip(s)) : IsDigit(Strip(s)[i])

\* ----------------------------------------------------------------- _f, _s
FNone == [k |-> "none"]
FVal(n) == [k |-> "val", v |-> n]
FRaise(e) == [k |-> "raise", e |-> e]

\* float(val) for a value that is not None: the number, or the error raised.
FloatOf(val) ==
  CASE val.t = "num" -> FVal(val.v)
    [] val.t = "bool" -> FVal(IF val.v THEN 10 ELSE 0)
    [] val.t = "str" ->
         IF IsNumericStr(val.s) THEN FVal(10 * DigitsValue(Strip(val.s)))
         ELSE FRaise("ValueError")
    [] val.t = "bigint" -> FRaise("OverflowError")
    [] OTHER -> FRaise("TypeError")

\* _f without its try/except: every float() error propagates.
_f_NoExcept(val) == IF val.t = "null" THEN FNone ELSE FloatOf(val)

\* _f(val): None for None; float(val), with TypeError and ValueError caught.
_f(val) ==
  IF val.t = "null" THEN FNone
  ELSE LET r == FloatOf(val) IN
       IF r.k = "raise" /\ r.e \in {"TypeError", "ValueError"} THEN FNone ELSE r

\* str(val) of the values the header fields take.
StrOf(val) ==
  CASE val.t = "str" -> val.s
    [] val.t = "num" -> DecimalOf(val.v \div 10)
    [] val.t = "bool" -> IF val.v THEN <<"T">> ELSE <<"F">>
    [] val.t = "list" -> <<"[", "]">>
    [] OTHER -> <<"{", "}">>

SNone == [k |-> "none"]
SVal(s) == [k |-> "val", s |-> s]

\* _s(val): None for None, else str(val).strip().  A missing key is None.
_s(val) == IF val.t \in {"null", "absent"} THEN SNone ELSE SVal(Strip(StrOf(val)))

\* ------------------------------------------------------------ haversine_km
\* Earth radius in km.
R == 6371

\* 1000 * cos(lat), lat in whole degrees.
Cos1000(deg) ==
  CASE deg = 40 -> 766 [] deg = 41 -> 755 [] deg = 42 -> 743 [] deg = 43 -> 731
    [] deg = 44 -> 719 [] deg = 45 -> 707 [] deg = 46 -> 695

\* 10^8 * sin^2(d/2), d in whole degrees.
SinSqHalf(deg) ==
  CASE deg = 0 -> 0 [] deg = 1 -> 7615 [] deg = 2 -> 30459 [] deg = 3 -> 68523
    [] deg = 4 -> 121797 [] deg = 5 -> 190265

Abs(x) == IF x < 0 THEN -x ELSE x

RECURSIVE ISqrtIn(_, _, _)
ISqrtIn(n, lo, hi) ==
  IF lo >= hi THEN lo
  ELSE LET mid == (lo + hi + 1) \div 2 IN
       IF mid * mid <= n THEN ISqrtIn(n, mid, hi) ELSE ISqrtIn(n, lo, mid - 1)

\* floor(sqrt(n)) for 0 <= n < 2^30
ISqrt(n) == ISqrtIn(n, 0, 32767)

\* haversine_km in tenths of a km, for points on whole degrees (arguments in
\* tenths of a degree).  a is held times 10^8 and sqrt(a) times 10^5; for the
\* distances of the grid asin(x) = x to within the resolution kept.
haversine_km(lat1, lon1, lat2, lon2) ==
  LET dlat == Abs(lat2 - lat1) \div 10
      dlon == Abs(lon2 - lon1) \div 10
      a == SinSqHalf(dlat)
           + (((Cos1000(lat1 \div 10) * Cos1000(lat2 \div 10)) \div 1000) * SinSqHalf(dlon)) \div 1000
  IN (R * 2 * ISqrt(a * 100)) \div 10000

\* ------------------------------------------------------------- geo filter
\* The filter parameters stream_pings is called with: the box, the center,
\* max_dist_km and min_alt_ft (FNone when --min-alt is not given).
Flt(clat, clon, radius, maxd, minalt) ==
  [lat_min |-> clat - radius, lat_max |-> clat + radius,
   lon_min |-> clon - radius, lon_max |-> clon + radius,
   center_lat |-> clat, center_lon |-> clon,
   max_dist_km |-> maxd, min_alt_ft |-> minalt]

\* The box test with its edges left out.
InBoxStrict(lat, lon, flt) ==
  flt.lat_min < lat /\ lat < flt.lat_max /\ flt.lon_min < lon /\ lon < flt.lon_max

\* lat_min <= lat <= lat_max and lon_min <= lon <= lon_max
InBox(lat, lon, flt) ==
  flt.lat_min <= lat /\ lat <= flt.lat_max /\ flt.lon_min <= lon /\ lon <= flt.lon_max

\* not (haversine_km(center, point) > max_dist_km)
WithinDist(lat, lon, flt) ==
  ~(haversine_km(flt.center_lat, flt.center_lon, lat, lon) > flt.max_dist_km)

\* not (min_alt_ft is not None and (alt_baro is None or alt_baro < min_alt_ft))
AltOk(alt_baro, flt) ==
  ~(flt.min_alt_ft.k = "val" /\ (alt_baro.k = "none" \/ alt_baro.v < flt.min_alt_ft.v))

\* ---------------------------------------------------------- entry decoding
TruncDiv(n, d) == IF n >= 0 THEN n \div d ELSE -((-n) \div d)

\* pt[i] (0-based) if len(pt) > i else None
At(pt, i) == IF Len(pt.a) > i THEN pt.a[i + 1] ELSE Null

\* int(base_ts + offset), in whole seconds; the error `+` raises otherwise.
AddTs(base_ts, offset) ==
  CASE base_ts.t = "num" -> FVal(TruncDiv(base_ts.v + offset, 10))
    [] base_ts.t = "bool" -> FVal(TruncDiv((IF base_ts.v THEN 10 ELSE 0) + offset, 10))
    [] base_ts.t = "bigint" -> FRaise("OverflowError")
    [] OTHER -> FRaise("TypeError")

\* The header computed once per entry, or the error its extraction raises.
\* data.get raises AttributeError on anything but an object, and so does
\* .lower() on an icao that is not a string.
HeaderOf(data) ==
  IF data.t # "obj" THEN FRaise("AttributeError")
  ELSE LET icaoRaw == GetDefault(data, "icao", Str(<<>>)) IN
       IF icaoRaw.t # "str" THEN FRaise("AttributeError")
       ELSE [k |-> "ok",
             base_ts |-> GetDefault(data, "timestamp", Num(0)),
             icao |-> _s(Str(Lower(icaoRaw.s))),
             reg |-> _s(Get(data, "r")),
             atype |-> _s(Get(data, "t")),
             desc |-> _s(Get(data, "desc")),
             operator |-> _s(Get(data, "ownOp"))]

\* What `for pt in data.get("trace", [])` iterates over: the elements of a
\* list, the characters of a string, the keys of an object; None and numbers
\* are not iterable.
TraceItems(data) ==
  LET tr == GetDefault(data, "trace", List(<<>>)) IN
  CASE tr.t = "list" -> [k |-> "ok", items |-> tr.a]
    [] tr.t = "str" -> [k |-> "ok", items |-> [i \in 1..Len(tr.s) |-> Str(<<tr.s[i]>>)]]
    [] tr.t = "obj" ->
         [k |-> "ok", items |-> [i \in 1..Cardinality(DOMAIN tr.m) |-> Str(<<"k">>)]]
    [] OTHER -> FRaise("TypeError")

\* The first error among the results of a row's float conversions, if any.
FirstRaise(rs) ==
  IF \E i \in 1..Len(rs) : rs[i].k = "raise"
  THEN rs[CHOOSE i \in 1..Len(rs) : rs[i].k = "raise" /\ \A j \in 1..(i - 1) : rs[j].k # "raise"]
  ELSE FNone

\* The row yielded for a point that passed every check.
Row(hdr, pt, ts, lat, lon, alt_baro) ==
  LET ac == IF Len(pt.a) > 8 /\ pt.a[9].t = "obj" THEN pt.a[9] ELSE Obj(<<>>)
      flight == _s(Get(ac, "flight"))
  IN [timestamp |-> ts,
      icao |-> hdr.icao,
      registration |-> hdr.reg,
      flight |-> IF flight = SVal(<<>>) THEN SNone ELSE flight,
      lat |-> lat,
      lon |-> lon,
      altitude_baro |-> alt_baro,
      alt_geom |-> _f(At(pt, 10)),
      ground_speed |-> _f(At(pt, 4)),
      track_degrees |-> _f(At(pt, 5)),
      vertical_rate |-> _f(At(pt, 7)),
      aircraft_type |-> hdr.atype,
      description |-> hdr.desc,
      operator |-> hdr.operator,
      squawk |-> _s(Get(ac, "squawk")),
      category |-> _s(Get(ac, "category")),
      source_type |-> _s(At(pt, 9))]

Skip == [k |-> "skip"]

\* One pass of the body of `for pt in ...`: the point is skipped (continue),
\* a row is yielded, or an error is raised.
PointOutcome(hdr, pt, flt) ==
  IF pt.t # "list" \/ Len(pt.a) < 3 THEN Skip
  ELSE
  LET lat == _f(pt.a[2])
      lon == _f(pt.a[3])
  IN
  IF lat.k = "raise" THEN lat
  ELSE IF lon.k = "raise" THEN lon
  ELSE IF lat.k = "none" \/ lon.k = "none" THEN Skip
  ELSE IF ~InBox(lat.v, lon.v, flt) THEN Skip
  ELSE IF ~WithinDist(lat.v, lon.v, flt) THEN Skip
  ELSE
  LET alt_baro == _f(At(pt, 3)) IN
  IF alt_baro.k = "raise" THEN alt_baro
  ELSE IF ~AltOk(alt_baro, flt) THEN Skip
  ELSE
  LET offset == _f(pt.a[1]) IN
  IF offset.k = "raise" THEN offset
  ELSE IF offset.k = "none" THEN Skip
  ELSE
  LET ts == AddTs(hdr.base_ts, offset.v) IN
  IF ts.k = "raise" THEN ts
  ELSE
  LET row == Row(hdr, pt, ts.v, lat.v, lon.v, alt_baro)
      bad == FirstRaise(<<row.alt_geom, row.ground_speed, row.track_degrees, row.vertical_rate>>)
  IN IF bad.k = "raise" THEN bad ELSE [k |-> "yield", row |-> row]

\* ------------------------------------------------------------ tar archive
\* An archive entry: its member name (the directory it starts with and its
\* extension), whether it is a regular file, its size in units, its payload.
Entry(prefix, suffix, isreg, size, payload) ==
  [prefix |-> prefix, suffix |-> suffix, isreg |-> isreg, size |-> size, payload |-> payload]

Gzip(data) == [enc |-> "gzip", data |-> data]
Raw(data) == [enc |-> "raw", data |-> data]
\* Bytes that are neither gzip nor JSON.
Junk == [enc |-> "junk", data |-> Null]
\* A gzip stream that does not hold JSON.
GzipJunk == [enc |-> "gzipjunk", data |-> Null]

\* Units of one kind: a header block's two halves (h1, h2), member data (d),
\* the zero padding that fills the last data block (p), a zero block half
\* of the end-of-archive marker (z).  r, e: the release and the entry the
\* unit belongs to; i: its place in the data.
Unit(k, r, e, i) == [k |-> k, r |-> r, e |-> e, i |-> i]

\* Data units a member of `size` units occupies, padding included.
DataUnits(size) == 2 * ((size + 1) \div 2)

EntryUnits(r, e, size) ==
  <<Unit("h1", r, e, 0), Unit("h2", r, e, 0)>>
  \o [i \in 1..DataUnits(size) |-> IF i <= size THEN Unit("d", r, e, i) ELSE Unit("p", 0, 0, 0)]

RECURSIVE MembersOf(_, _, _)
MembersOf(r, ents, e) ==
  IF e > Len(ents) THEN <<>>
  ELSE EntryUnits(r, e, ents[e].size) \o MembersOf(r, ents, e + 1)

\* The bytes of release r as one tar archive: its members, then the
\* end-of-archive marker of two zero blocks.
TarOf(r, ents) ==
  MembersOf(r, ents, 1) \o [i \in 1..4 |-> Unit("z", 0, 0, 0)]

\* A part file: present on disk with these bytes, or missing.
Part(present, bytes) == [present |-> present, bytes |-> bytes]

\* What `cat part1 part2 ...` writes to its stdout: the bytes of the parts it
\* can open, in the order given; a part it cannot open is reported on stderr
\* and skipped.
RECURSIVE CatOutput(_)
CatOutput(ps) ==
  IF ps = <<>> THEN <<>>
  ELSE (IF Head(ps).present THEN Head(ps).bytes ELSE <<>>) \o CatOutput(Tail(ps))

IsZero(u) == u.k \in {"z", "p"}

\* TarInfo.fromtarfile at unit offset `off`: the member whose header block is
\* there, or the header error (empty: no bytes left; truncated: less than a
\* block; eof: a block of zeros; invalid: anything else).
HeaderAt(stream, off) ==
  LET n == Len(stream) - off IN
  IF n <= 0 THEN [k |-> "empty"]
  ELSE IF n = 1 THEN [k |-> "truncated"]
  ELSE LET u1 == stream[off + 1]
           u2 == stream[off + 2]
       IN IF IsZero(u1) /\ IsZero(u2) THEN [k |-> "eof"]
          ELSE IF u1.k = "h1" /\ u2.k = "h2" /\ u1.r = u2.r /\ u1.e = u2.e
               THEN [k |-> "ok", r |-> u1.r, e |-> u1.e, data |-> off + 2]
               ELSE [k |-> "invalid"]

NoMember == [k |-> "none", r |-> 0, e |-> 0, data |-> 0]

\* A TarFile.next() without the offset test: every header error ends the
\* archive.
HeaderEndsAnywhere(h, off) == h.k # "ok"

\* TarFile.next() treats every header error as the end of the archive, except
\* at offset 0, where all but a block of zeros raise ReadError.
HeaderEnds(h, off) == h.k = "eof" \/ (h.k # "ok" /\ off # 0)


\* member.name.startswith("./traces/") and member.name.endswith(".json")
NameMatches(ent) == ent.prefix = "./traces/" /\ ent.suffix = ".json"

\* Whether the units after the header at `data` are this member's own data.
Intact(stream, m, size) ==
  \A i \in 1..size : stream[m.data + i] = Unit("d", m.r, m.e, i)

\* json.loads(gzip.decompress(raw)), falling back to json.loads(raw).
Decode(payload, intact) ==
  IF intact /\ payload.enc \in {"gzip", "raw"}
  THEN [k |-> "ok", data |-> payload.data]
  ELSE [k |-> "fail"]

\* ------------------------------------------------------------------ state
VARIABLES
  \* the releases on disk (each a sequence of entries) and the part list,
  \* filter and options the run was started with
  releases, parts, flt, limit, writer,
  \* stream_pings: where the generator stands, the tar reader's offset of the
  \* next header, the current member, the entry's header and trace, the index
  \* of the next point, the rows yielded so far, the error raised, whether
  \* the finally block has run
  genPc, offset, member, hdr, items, ptIdx, out, err, torn,
  \* main: where the loop stands, count, the CSV data rows written, the
  \* number of next() calls made, whether KeyboardInterrupt was caught
  mainPc, count, rows, pulls, interrupted,
  \* the cat process and its pipe: cat's state, the units it has read from
  \* the part files, the units it holds unwritten, the units in the pipe,
  \* the read end, the tar reader, the consumer's position, the units the
  \* tar reader has taken, whether cat was reaped
  catPc, srcRead, catBuf, pipeLen, readEnd, tfState, conPc, consumed, reaped,
  \* the download of one date: the sizes the release declares for its
  \* assets, the files of the data directory under the assets' names (dest)
  \* and under those names with ".part" added (tmp), where download_date and
  \* download_file stand, the asset at hand, the list download_date builds,
  \* the bytes of the response body not read yet, the chunk read and not
  \* written yet, the dest files as they were when download_file was called,
  \* whether a call was ended by KeyboardInterrupt, the runs made so far
  release, destFiles, tmpFiles, ddPc, dfPc, asset, dlParts, body, buf, before, killed, runs

inputVars == <<releases, parts, flt, limit, writer>>
genVars == <<genPc, offset, member, hdr, items, ptIdx, out, err, torn>>
mainVars == <<mainPc, count, rows, pulls, interrupted>>
pipeVars == <<catPc, srcRead, catBuf, pipeLen, readEnd, tfState, conPc, consumed, reaped>>
dlVars ==
  <<release, destFiles, tmpFiles, ddPc, dfPc, asset, dlParts, body, buf, before, killed, runs>>
vars == <<inputVars, genVars, mainVars, pipeVars, dlVars>>

NoHdr == [k |-> "none"]

\* The state of a run before its first next(): nothing of stream_pings has
\* executed (a generator's body starts with the first next()).
FreshRun ==
  /\ genPc = "new" /\ offset = 0 /\ member = NoMember /\ hdr = NoHdr
  /\ items = <<>> /\ ptIdx = 0 /\ out = <<>> /\ err = "none" /\ torn = FALSE
  /\ mainPc = "loop" /\ count = 0 /\ rows = 0 /\ pulls = 0 /\ interrupted = FALSE

\* The pipe variables at rest (the runs of Spec do not use them).
PipeIdle ==
  /\ catPc = "none" /\ srcRead = 0 /\ catBuf = 0 /\ pipeLen = 0
  /\ readEnd = "none" /\ tfState = "none" /\ conPc = "none" /\ consumed = 0
  /\ reaped = FALSE

\* The download variables at rest (the runs of Spec and SpecPipe start from
\* part files already on disk).
DlIdle ==
  /\ release = <<>> /\ destFiles = <<>> /\ tmpFiles = <<>>
  /\ ddPc = "none" /\ dfPc = "idle" /\ asset = 0 /\ dlParts = <<>>
  /\ body = 0 /\ buf = 0 /\ before = <<>> /\ killed = FALSE /\ runs = 0

\* ------------------------------------------------------------ stream_pings
\* An exception leaves the generator.  Inside the try the finally block runs
\* first; the caller's loop does not catch it.
Raise(e, inTry) ==
  /\ genPc' = "raised"
  /\ err' = e
  /\ torn' = inTry
  /\ mainPc' = "crashed"

\* The for loop is exhausted: the finally block runs, the generator returns
\* and the caller's loop ends.
Finish ==
  /\ genPc' = "finished"
  /\ torn' = TRUE
  /\ mainPc' = "done"

\* Lines 77-81, run by the first next(): Popen(cat), tarfile.open, which reads
\* the first header.  tarfile.open stands before the try.
GenStart ==
  /\ mainPc = "in_next" /\ genPc = "new"
  /\ LET h == HeaderAt(CatOutput(parts), 0) IN
     IF h.k = "ok"
     THEN /\ genPc' = "member"
          /\ member' = h
          /\ offset' = h.data + DataUnits(releases[h.r][h.e].size)
          /\ UNCHANGED <<err, torn, mainPc>>
     ELSE IF HeaderEnds(h, 0)
     THEN Finish /\ UNCHANGED <<member, offset, err>>
     ELSE Raise("ReadError", FALSE) /\ UNCHANGED <<member, offset>>
  /\ UNCHANGED <<hdr, items, ptIdx, out, count, rows, pulls, interrupted>>
  /\ UNCHANGED <<inputVars, pipeVars, dlVars>>

\* Lines 85-108 for the current member: the name test, extractfile, read,
\* decode, the header fields, the start of the loop over the trace.
GenMember ==
  /\ mainPc = "in_next" /\ genPc = "member"
  /\ LET stream == CatOutput(parts)
         ent == releases[member.r][member.e]
         dec == Decode(ent.payload, Intact(stream, member, ent.size))
     IN
     IF ~NameMatches(ent) \/ ~ent.isreg
     THEN genPc' = "advance" /\ UNCHANGED <<hdr, items, ptIdx, err, torn, mainPc>>
     ELSE IF Len(stream) - member.data < ent.size
     THEN Raise("ReadError", TRUE) /\ UNCHANGED <<hdr, items, ptIdx>>
     ELSE IF dec.k = "fail"
     THEN genPc' = "advance" /\ UNCHANGED <<hdr, items, ptIdx, err, torn, mainPc>>
     ELSE LET h == HeaderOf(dec.data) IN
          IF h.k = "raise"
          THEN Raise(h.e, TRUE) /\ UNCHANGED <<hdr, items, ptIdx>>
          ELSE LET its == TraceItems(dec.data) IN
               IF its.k = "raise"
               THEN Raise(its.e, TRUE) /\ hdr' = h /\ UNCHANGED <<items, ptIdx>>
               ELSE /\ genPc' = "points"
                    /\ hdr' = h
                    /\ items' = its.items
                    /\ ptIdx' = 1
                    /\ UNCHANGED <<err, torn, mainPc>>
  /\ UNCHANGED <<offset, member, out, count, rows, pulls, interrupted>>
  /\ UNCHANGED <<inputVars, pipeVars, dlVars>>

\* Lines 108-150 for one trace point, or the end of the trace.
GenPoint ==
  /\ mainPc = "in_next" /\ genPc = "points"
  /\ IF ptIdx > Len(items)
     THEN genPc' = "advance" /\ UNCHANGED <<ptIdx, out, err, torn, mainPc>>
     ELSE LET o == PointOutcome(hdr, items[ptIdx], flt) IN
          CASE o.k = "skip" ->
                 ptIdx' = ptIdx + 1 /\ UNCHANGED <<genPc, out, err, torn, mainPc>>
            [] o.k = "raise" ->
                 Raise(o.e, TRUE) /\ UNCHANGED <<ptIdx, out>>
            [] o.k = "yield" ->
                 /\ genPc' = "yielded"
                 /\ out' = Append(out, o.row)
                 /\ ptIdx' = ptIdx + 1
                 /\ mainPc' = "body"
                 /\ UNCHANGED <<err, torn>>
  /\ UNCHANGED <<offset, member, hdr, items, count, rows, pulls, interrupted>>
  /\ UNCHANGED <<inputVars, pipeVars, dlVars>>

\* `for member in tf` asks for the next member (TarFile.next): the rest of the
\* previous member is skipped, which raises ReadError when the stream ends
\* inside it; then the next header is read.
GenAdvance ==
  /\ mainPc = "in_next" /\ genPc = "advance"
  /\ LET stream == CatOutput(parts)
         h == HeaderAt(stream, offset)
     IN
     IF offset # member.data /\ Len(stream) < offset
     THEN Raise("ReadError", TRUE) /\ UNCHANGED <<member, offset>>
     ELSE IF h.k = "ok"
     THEN /\ genPc' = "member"
          /\ member' = h
          /\ offset' = h.data + DataUnits(releases[h.r][h.e].size)
          /\ UNCHANGED <<err, torn, mainPc>>
     ELSE IF HeaderEnds(h, offset)
     THEN Finish /\ UNCHANGED <<member, offset, err>>
     ELSE Raise("ReadError", TRUE) /\ UNCHANGED <<member, offset>>
  /\ UNCHANGED <<hdr, items, ptIdx, out, count, rows, pulls, interrupted>>
  /\ UNCHANGED <<inputVars, pipeVars, dlVars>>

\* -------------------------------------------------------------------- main
\* args.limit and count >= args.limit, with > in place of >=.
LimitReachedLate(lim, cnt) == lim # 0 /\ cnt > lim

\* args.limit and count >= args.limit
LimitReached(lim, cnt) == lim # 0 /\ cnt >= lim

\* The for statement calls next() on the generator.
MainNext ==
  /\ mainPc = "loop"
  /\ mainPc' = "in_next"
  /\ pulls' = pulls + 1
  /\ genPc' = IF genPc = "yielded" THEN "points" ELSE genPc
  /\ UNCHANGED <<offset, member, hdr, items, ptIdx, out, err, torn>>
  /\ UNCHANGED <<count, rows, interrupted>>
  /\ UNCHANGED <<inputVars, pipeVars, dlVars>>

\* The loop body for one row: writerow, count += 1, the limit test.  `break`
\* drops the generator, whose finally block then runs (GeneratorExit).
MainBody ==
  /\ mainPc = "body"
  /\ rows' = IF writer THEN rows + 1 ELSE rows
  /\ count' = count + 1
  /\ IF LimitReached(limit, count + 1)
     THEN mainPc' = "done" /\ genPc' = "closed" /\ torn' = TRUE
     ELSE mainPc' = "loop" /\ UNCHANGED <<genPc, torn>>
  /\ UNCHANGED <<offset, member, hdr, items, ptIdx, out, err>>
  /\ UNCHANGED <<pulls, interrupted>>
  /\ UNCHANGED <<inputVars, pipeVars, dlVars>>

\* KeyboardInterrupt during the loop: a started generator is unwound or
\* dropped, so its finally block runs; main catches the exception.
Interrupt ==
  /\ mainPc \in {"loop", "in_next", "body"}
  /\ mainPc' = "done"
  /\ interrupted' = TRUE
  /\ IF genPc = "new"
     THEN UNCHANGED <<genPc, torn>>
     ELSE genPc' = "closed" /\ torn' = TRUE
  /\ UNCHANGED <<offset, member, hdr, items, ptIdx, out, err>>
  /\ UNCHANGED <<count, rows, pulls>>
  /\ UNCHANGED <<inputVars, pipeVars, dlVars>>

Next == GenStart \/ GenMember \/ GenPoint \/ GenAdvance \/ MainNext \/ MainBody \/ Interrupt

\* ----------------------------------------------------------------- inputs
\* The default filter of the command line around 43 N, 89 W: --radius 1,
\* --max-dist 161, no --min-alt.
DefaultFlt == Flt(430, -890, 10, 1610, FNone)

\* A point at the center, 10 s after the base timestamp, at 3000 ft.
MatchPt == List(<<Num(100), Num(430), Num(-890), Num(30000)>>)
\* A point one degree north of the center, 1.5 s after the base timestamp.
MatchPt2 == List(<<Num(15), Num(440), Num(-890)>>)
\* A point outside the default box.
FarPt == List(<<Num(100), Num(450), Num(-890), Num(30000)>>)
\* A point at the center with every index filled: altitude 3000 ft, ground
\* speed, track, the flags, vertical rate, the inline metadata, the source
\* tag and the geometric altitude.
FullPt ==
  List(<<Num(100), Num(430), Num(-890), Num(30000), Num(1200), Num(900), Num(0), Num(-640),
         Obj([flight |-> Str(<<"U", "1", " ">>), squawk |-> Str(<<"1", "2">>)]),
         Str(<<"a", "d", "s", "b">>), Num(31000)>>)
\* The same point cut after the source tag, its index 8 not an object.
NoMetaPt ==
  List(<<Num(100), Num(430), Num(-890), Num(30000), Num(1200), Num(900), Num(0), Num(-640),
         Null, Str(<<"a", "d", "s", "b">>)>>)

TraceObj(ts, icao, trace) == Obj([timestamp |-> ts, icao |-> icao, trace |-> trace])

TraceEntry(size, payload) == Entry("./traces/", ".json", TRUE, size, payload)

\* Entries of the archive-structure scenarios: trace files with one and with
\* two matching points and with none, and a file that is not a trace.
StructEntries ==
  { TraceEntry(1, Gzip(TraceObj(Num(1000), Str(<<"A", "1">>), List(<<MatchPt>>)))),
    TraceEntry(2, Raw(TraceObj(Num(2000), Str(<<"b", "2">>), List(<<MatchPt, MatchPt2>>)))),
    TraceEntry(1, Gzip(TraceObj(Num(3000), Str(<<"C", "3">>), List(<<FarPt>>)))),
    Entry("./", ".txt", TRUE, 3, Junk) }

SeqsUpTo(set, n) == UNION {[1..k -> set] : k \in 1..n}

StructReleases == SeqsUpTo(StructEntries, MaxEntries)

\* The ways one release reaches stream_pings: whole, or split in two parts at
\* any unit, the parts in order or swapped, all present or one missing.
PartLists(bytes) ==
  { <<Part(TRUE, bytes)>> }
  \cup UNION { LET p1 == SubSeq(bytes, 1, cut)
                   p2 == SubSeq(bytes, cut + 1, Len(bytes))
               IN { <<Part(TRUE, p1), Part(TRUE, p2)>>,
                    <<Part(TRUE, p2), Part(TRUE, p1)>>,
                    <<Part(FALSE, p1), Part(TRUE, p2)>>,
                    <<Part(TRUE, p1), Part(FALSE, p2)>> }
               : cut \in 1..(Len(bytes) - 1) }

\* One release, whole or split, walked without a limit.
InitSplit ==
  /\ \E rel \in StructReleases :
       /\ releases = <<rel>>
       /\ parts \in PartLists(TarOf(1, rel))
  /\ flt = DefaultFlt /\ limit = 0 /\ writer = TRUE

\* One or two releases (dates), each a whole archive of its own (the second
\* of one entry), the part list sorted by name, walked with and without a
\* limit and a CSV writer.
InitDates ==
  /\ \E rel1 \in StructReleases :
       \/ releases = <<rel1>> /\ parts = <<Part(TRUE, TarOf(1, rel1))>>
       \/ \E rel2 \in SeqsUpTo(StructEntries, 1) :
            /\ releases = <<rel1, rel2>>
            /\ parts = <<Part(TRUE, TarOf(1, rel1)), Part(TRUE, TarOf(2, rel2))>>
  /\ flt = DefaultFlt /\ limit \in 0..MaxLimit /\ writer \in BOOLEAN

\* Values a header field may hold.
TsValues == {Absent, Null, Num(1000), Str(<<"x">>)}
IcaoValues == {Absent, Null, Str(<<"A", "b">>), Num(50)}
TextValues == {Absent, Null, Str(<<" ", "N", "1">>), Num(70)}
TraceValues ==
  {Absent, Null, Num(50), Str(<<"a", "b">>), Obj([a |-> Num(10)]),
   List(<<MatchPt>>), List(<<FarPt, MatchPt2>>)}

\* The object with the keys of f whose value is not Absent.
MkObj(f) == Obj([key \in {x \in DOMAIN f : f[x].t # "absent"} |-> f[key]])

HeaderPayloads ==
  { Gzip(MkObj([timestamp |-> ts, icao |-> ic, r |-> tx, t |-> tx, desc |-> ty,
                ownOp |-> ty, trace |-> tr]))
    : ts \in TsValues, ic \in IcaoValues, tx \in {Absent, Str(<<" ", "N", "1">>)},
      ty \in TextValues, tr \in TraceValues }

\* Payloads that are not a JSON object, or not JSON, or not a regular file.
OddPayloads ==
  { Raw(List(<<>>)), Gzip(Num(50)), Raw(Null), Gzip(Str(<<"a">>)), Raw(Bool(TRUE)),
    Junk, GzipJunk }

GoodEntry == TraceEntry(1, Gzip(TraceObj(Num(1000), Str(<<"A", "1">>), List(<<MatchPt>>))))

\* A whole archive of two trace entries: one with any header and payload,
\* then a good one.
InitHeaders ==
  /\ \E pl \in HeaderPayloads \cup OddPayloads :
       \E first \in {TraceEntry(1, pl), Entry("./traces/", ".json", FALSE, 0, pl),
                     Entry("traces/", ".json", TRUE, 1, pl)} :
         /\ releases = <<(<<first, GoodEntry>>)>>
         /\ parts = <<Part(TRUE, TarOf(1, <<first, GoodEntry>>))>>
  /\ flt = DefaultFlt /\ limit = 0 /\ writer = FALSE

\* Elements a trace may hold.
TracePoints ==
  { Num(50), Str(<<"a">>), Null,
    List(<<>>), List(<<Num(100), Num(430)>>),
    List(<<Num(100), Null, Num(-890)>>),
    List(<<Num(100), Str(<<"a", "b">>), Num(-890)>>),
    List(<<Num(100), Num(430), List(<<Num(10)>>)>>),
    List(<<Num(100), Num(430), Obj([a |-> Num(10)])>>),
    List(<<Num(100), Str(<<"4", "3">>), Str(<<" ", "0">>)>>),
    List(<<Num(100), Str(<<"4", "3">>), Num(-890)>>),
    List(<<Null, Num(430), Num(-890)>>),
    List(<<Num(100), BigInt, Num(-890)>>),
    List(<<Num(100), Num(430), Num(-890), BigInt>>),
    MatchPt, MatchPt2, FarPt, FullPt, NoMetaPt }

\* A whole archive of one trace entry with a good header and any trace.
InitTraces ==
  /\ \E tr \in SeqsUpTo(TracePoints, MaxTrace) \cup {<<>>} :
       \E ts \in {Num(1000), Null} :
         LET rel == <<TraceEntry(1, Gzip(TraceObj(ts, Str(<<"A", "1">>), List(tr))))>>
         IN releases = <<rel>> /\ parts = <<Part(TRUE, TarOf(1, rel))>>
  /\ flt = DefaultFlt /\ limit = 0 /\ writer = FALSE

\* The grid of positions around the center and the altitudes tried.
GridLats == {410, 420, 430, 440, 450}
GridLons == {-910, -900, -890, -880, -870}
AltValues == {Absent, Null, Num(5000), Num(10000), Num(20000)}

\* A whole archive of one entry with one point on the grid; the filter varies.
InitFilter ==
  /\ \E la \in GridLats, lo \in GridLons, al \in AltValues :
       LET pt == IF al.t = "absent" THEN List(<<Num(100), Num(la), Num(lo)>>)
                 ELSE List(<<Num(100), Num(la), Num(lo), al>>)
           rel == <<TraceEntry(1, Gzip(TraceObj(Num(1000), Str(<<"A", "1">>), List(<<pt>>))))>>
       IN releases = <<rel>> /\ parts = <<Part(TRUE, TarOf(1, rel))>>
  /\ \E radius \in {10, 20}, maxd \in {1000, 1610, 2000}, minalt \in {FNone, FVal(10000)} :
       flt = Flt(430, -890, radius, maxd, minalt)
  /\ limit = 0 /\ writer = FALSE

Init ==
  /\ InitSplit \/ InitDates \/ InitHeaders \/ InitTraces \/ InitFilter
  /\ FreshRun
  /\ PipeIdle
  /\ DlIdle

Spec == Init /\ [][Next]_vars

\* -------------------------------------------- the walk as a pure function
NoRows == [rows |-> <<>>, err |-> "none"]

\* The rows the loop over a trace yields from its i-th element on, and the
\* error that ends it, if one does.
RECURSIVE TraceFrom(_, _, _, _)
TraceFrom(h, its, i, f) ==
  IF i > Len(its) THEN NoRows
  ELSE LET o == PointOutcome(h, its[i], f) IN
       CASE o.k = "skip" -> TraceFrom(h, its, i + 1, f)
         [] o.k = "raise" -> [rows |-> <<>>, err |-> o.e]
         [] o.k = "yield" ->
              LET rest == TraceFrom(h, its, i + 1, f)
              IN [rows |-> <<o.row>> \o rest.rows, err |-> rest.err]

\* The rows one member yields (lines 85-150), and the error it raises.
EntryRun(stream, m, ent, f) ==
  IF ~NameMatches(ent) \/ ~ent.isreg THEN NoRows
  ELSE IF Len(stream) - m.data < ent.size THEN [rows |-> <<>>, err |-> "ReadError"]
  ELSE LET dec == Decode(ent.payload, Intact(stream, m, ent.size)) IN
       IF dec.k = "fail" THEN NoRows
       ELSE LET h == HeaderOf(dec.data) IN
            IF h.k = "raise" THEN [rows |-> <<>>, err |-> h.e]
            ELSE LET its == TraceItems(dec.data) IN
                 IF its.k = "raise" THEN [rows |-> <<>>, err |-> its.e]
                 ELSE TraceFrom(h, its.items, 1, f)

\* The rows stream_pings yields from the header at `off` on when it is run
\* to exhaustion, and the error that ends the run, if one does.
RECURSIVE WalkFrom(_, _, _, _)
WalkFrom(stream, rels, off, f) ==
  LET h == HeaderAt(stream, off) IN
  IF h.k = "ok"
  THEN LET ent == rels[h.r][h.e]
           run == EntryRun(stream, h, ent, f)
           nxt == h.data + DataUnits(ent.size)
       IN IF run.err # "none" THEN run
          ELSE IF nxt # h.data /\ Len(stream) < nxt
          THEN [rows |-> run.rows, err |-> "ReadError"]
          ELSE LET rest == WalkFrom(stream, rels, nxt, f)
               IN [rows |-> run.rows \o rest.rows, err |-> rest.err]
  ELSE IF HeaderEnds(h, off) THEN NoRows
  ELSE [rows |-> <<>>, err |-> "ReadError"]

Walk(ps, rels, f) == WalkFrom(CatOutput(ps), rels, 0, f)

\* The rows of every entry of every release, in order: what a walk of all
\* the releases yields.
RECURSIVE RowsOfEntries(_, _, _)
RowsOfEntries(ents, e, f) ==
  IF e > Len(ents) THEN <<>>
  ELSE LET run == EntryRun(EntryUnits(1, e, ents[e].size),
                           [k |-> "ok", r |-> 1, e |-> e, data |-> 2], ents[e], f)
       IN run.rows \o RowsOfEntries(ents, e + 1, f)

RECURSIVE RowsOfReleases(_, _, _)
RowsOfReleases(rels, r, f) ==
  IF r > Len(rels) THEN <<>>
  ELSE RowsOfEntries(rels[r], 1, f) \o RowsOfReleases(rels, r + 1, f)

\* ------------------------------------------------------- run descriptions
AllPresent == \A i \in 1..Len(parts) : parts[i].present

\* The part list holds every release whole, one part each, in order.
WholeInOrder ==
  /\ Len(parts) = Len(releases)
  /\ \A i \in 1..Len(parts) : parts[i] = Part(TRUE, TarOf(i, releases[i]))

\* The part list is a release split in two, both parts present, swapped.
WrongOrder ==
  /\ Len(releases) = 1 /\ Len(parts) = 2 /\ AllPresent
  /\ parts[2].bytes \o parts[1].bytes = TarOf(1, releases[1])
  /\ parts[1].bytes \o parts[2].bytes # TarOf(1, releases[1])

\* The run ended without an exception and without an interrupt.
EndedNormally == mainPc = "done" /\ ~interrupted

\* ------------------------------------------------------------------ claims
Min(a, b) == IF a < b THEN a ELSE b

\* C2 (as claimed): a missing part is fatal: a run whose part list names a
\* file that is not there never ends normally, the for loop exhausted as if
\* the archive were complete.
C2_MissingPartIsFatal == genPc = "finished" => AllPresent

\* C3 (as claimed): no trace entry payload makes stream_pings raise: neither
\* valid JSON that is not an object (AttributeError on data.get), nor a header
\* or trace field that is null or of the wrong type (AttributeError on
\* .lower(), TypeError on the iteration of trace and on base_ts + offset).
C3_BadEntryNeverAborts == ~(genPc = "raised" /\ err \in {"AttributeError", "TypeError"})

\* A trace element the claim C4 calls bad: not an array, fewer than three
\* elements, or a latitude or longitude that is not a number (null, a string
\* that holds no number, an array, an object).
NonNumeric(v) ==
  v.t \in {"null", "list", "obj"} \/ (v.t = "str" /\ ~IsNumericStr(v.s))

IsBad(pt) ==
  pt.t # "list" \/ Len(pt.a) < 3 \/ NonNumeric(pt.a[2]) \/ NonNumeric(pt.a[3])

NotBad(pt) == ~IsBad(pt)

\* The entry with the bad elements removed from its trace.
CleanEntry(ent) ==
  LET d == ent.payload.data IN
  IF d.t = "obj" /\ "trace" \in DOMAIN d.m /\ d.m["trace"].t = "list"
  THEN [ent EXCEPT !.payload.data.m["trace"].a = SelectSeq(@, NotBad)]
  ELSE ent

CleanReleases(rels) ==
  [r \in 1..Len(rels) |-> [e \in 1..Len(rels[r]) |-> CleanEntry(rels[r][e])]]

\* C4: a bad trace element is dropped without raising and without a row, and
\* its siblings are processed as if it were not there: when the generator has
\* ended, the rows it yielded and the error it raised (if any) are those of
\* the walk of the same archive with the bad elements removed from every
\* trace.
C4_BadPointDropped ==
  genPc \in {"finished", "raised"} =>
    LET W == Walk(parts, CleanReleases(releases), flt)
    IN out = W.rows /\ err = W.err

\* C4's case: a trace whose first element is bad and whose second is a good
\* point, which was yielded.
C4_Witness ==
  /\ genPc = "finished" /\ Len(items) >= 2
  /\ IsBad(items[1]) /\ ~IsBad(items[2])
  /\ Len(out) = 1 /\ out[1].lat = items[2].a[2].v

\* A decodable point: an array of at least three elements whose offset,
\* latitude and longitude are numbers and whose altitude, if there, is a
\* number or null.
Decodable(pt) ==
  /\ pt.t = "list" /\ Len(pt.a) >= 3
  /\ \A i \in 1..3 : pt.a[i].t = "num"
  /\ Len(pt.a) > 3 => pt.a[4].t \in {"num", "null"}
  /\ \A i \in 5..Len(pt.a) : pt.a[i].t \in {"num", "null"}

AltOf(pt) == IF Len(pt.a) > 3 /\ pt.a[4].t = "num" THEN FVal(pt.a[4].v) ELSE FNone

\* The filter decision as C5 states it.
Accepted(pt, f) ==
  LET lat == pt.a[2].v
      lon == pt.a[3].v
      alt == AltOf(pt)
  IN /\ f.lat_min <= lat /\ lat <= f.lat_max
     /\ f.lon_min <= lon /\ lon <= f.lon_max
     /\ haversine_km(f.center_lat, f.center_lon, lat, lon) <= f.max_dist_km
     /\ f.min_alt_ft.k = "none" \/ (alt.k = "val" /\ alt.v >= f.min_alt_ft.v)

\* C5: a decodable point is yielded if and only if it lies in the box (edges
\* included), within max_dist_km of the center, and, when a minimum altitude
\* is set, has an altitude that is present and at least the minimum: the
\* conjunction of the three tests, whatever their order.
C5_FilterDecision ==
  [][(/\ genPc = "points" /\ mainPc = "in_next" /\ ptIdx <= Len(items)
      /\ Decodable(items[ptIdx]) /\ hdr.base_ts.t = "num"
      /\ ~interrupted')
     => ((genPc' = "yielded") <=> Accepted(items[ptIdx], flt))]_vars

\* C5's case: with a minimum of 1000 ft a point at exactly 1000 ft, on the
\* edge of the box, was yielded.
C5_Witness ==
  /\ genPc = "yielded" /\ flt.min_alt_ft = FVal(10000)
  /\ out[Len(out)].altitude_baro = FVal(10000)
  /\ out[Len(out)].lat = flt.lat_max

\* C6: the count never exceeds a limit N > 0, the CSV holds as many data rows
\* as were counted, and a run that ends normally has counted min(N, M) rows
\* (all M with --limit 0), M being the number of rows stream_pings yields
\* when run to exhaustion; when the limit ended the run, no next() was
\* called after the N-th row.
C6_LimitCount ==
  /\ limit # 0 => count <= limit
  /\ rows = (IF writer THEN count ELSE 0)
  /\ EndedNormally =>
       LET M == Len(Walk(parts, releases, flt).rows)
       IN /\ count = (IF limit = 0 THEN M ELSE Min(limit, M))
          /\ (limit # 0 /\ count = limit) => pulls = count

\* C6's case: a limit of 1 ended a run over an archive that holds more rows.
C6_Witness ==
  /\ EndedNormally /\ limit = 1 /\ count = 1 /\ rows = 1 /\ genPc = "closed"
  /\ Len(Walk(parts, releases, flt).rows) > 1

\* C7 (as claimed): a run over the whole releases of several dates that ends
\* normally has yielded the matching points of every release.
C7_EveryReleaseWalked ==
  (genPc = "finished" /\ WholeInOrder) => out = RowsOfReleases(releases, 1, flt)

\* C8 (as claimed): a run on the two parts of a release in the wrong order
\* never completes normally.
C8_WrongOrderFails == WrongOrder => genPc # "finished"

\* C8 (amended): on the parts in the wrong order the run fails with ReadError
\* before any row, unless the stream then starts with a whole member header
\* or a whole block of zeros; if it starts with a member header (the split is
\* on a member boundary) the run ends normally with the rows of the members
\* of the second part only, and if it starts with zeros (the split is in the
\* padding or the end-of-archive marker) it ends normally with no rows.
C8_WrongOrderFailsInsideMember ==
  (WrongOrder /\ genPc \in {"finished", "raised"}) =>
    LET h == HeaderAt(CatOutput(parts), 0) IN
    CASE h.k = "ok" ->
           genPc = "finished" /\ out = RowsOfEntries(releases[1], h.e, flt)
      [] h.k = "eof" -> genPc = "finished" /\ out = <<>>
      [] OTHER -> genPc = "raised" /\ err = "ReadError" /\ out = <<>>

\* C8's case: the parts in the wrong order, the split inside a member, and
\* the run failed.
C8_Witness ==
  /\ WrongOrder /\ genPc = "raised" /\ err = "ReadError"
  /\ parts[1].bytes[1].k \in {"h2", "d"}

\* C10 (as claimed): an entry whose object has no timestamp or no icao yields
\* no rows.
C10_NoHeaderNoRows ==
  genPc = "yielded" =>
    LET d == releases[member.r][member.e].payload.data
    IN "timestamp" \in DOMAIN d.m /\ "icao" \in DOMAIN d.m

\* --------------------------------------------------- cat, the pipe, teardown
\* The runs of SpecPipe follow the bytes instead of their content: `cat`
\* copies SrcLen units from the part files into a pipe of PipeCap units, the
\* tar reader takes them out while a next() is in progress, and a row may be
\* yielded after any read.

\* The inputs and the content-level variables do not matter to these runs.
PipeFrame ==
  /\ releases = <<>> /\ parts = <<>> /\ flt = DefaultFlt /\ limit = 0 /\ writer = FALSE
  /\ FreshRun

InitPipe ==
  /\ PipeFrame
  /\ catPc = "none" /\ srcRead = 0 /\ catBuf = 0 /\ pipeLen = 0
  /\ readEnd = "none" /\ tfState = "none" /\ conPc = "new" /\ consumed = 0
  /\ reaped = FALSE
  /\ DlIdle

walkVars == <<inputVars, genVars, mainVars>>

\* A reader that also runs between two pulls.
CanReadEager(pc) == pc \in {"pulling", "holding"}

\* The generator's code, and with it the tar reader, runs only inside next().
CanRead(pc) == pc = "pulling"

\* A finally block that waits for cat before it closes the pipe.
AfterWaitFirst(pc) ==
  CASE pc = "tf_close" -> "wait"
    [] pc = "wait" -> "stdout_close"
    [] pc = "stdout_close" -> "done"

\* The order of the finally block: tf.close(), cat.stdout.close(), cat.wait().
After(pc) ==
  CASE pc = "tf_close" -> "stdout_close"
    [] pc = "stdout_close" -> "wait"
    [] pc = "wait" -> "done"

\* The first next(): Popen starts cat with a pipe as its stdout, and
\* tarfile.open wraps the read end.
PipeStart ==
  /\ conPc = "new"
  /\ conPc' = "pulling"
  /\ catPc' = "running" /\ readEnd' = "open" /\ tfState' = "open"
  /\ UNCHANGED <<srcRead, catBuf, pipeLen, consumed, reaped, walkVars, dlVars>>

\* cat reads its next buffer from the part files.
CatRead ==
  /\ catPc = "running" /\ catBuf = 0 /\ srcRead < SrcLen
  /\ catBuf' = Min(CatChunk, SrcLen - srcRead)
  /\ srcRead' = srcRead + Min(CatChunk, SrcLen - srcRead)
  /\ UNCHANGED <<catPc, pipeLen, readEnd, tfState, conPc, consumed, reaped, walkVars, dlVars>>

\* cat writes what fits into the pipe; with the pipe full it stays blocked.
CatWrite ==
  /\ catPc = "running" /\ catBuf > 0 /\ readEnd = "open" /\ pipeLen < PipeCap
  /\ pipeLen' = pipeLen + Min(catBuf, PipeCap - pipeLen)
  /\ catBuf' = catBuf - Min(catBuf, PipeCap - pipeLen)
  /\ UNCHANGED <<catPc, srcRead, readEnd, tfState, conPc, consumed, reaped, walkVars, dlVars>>

\* A write to a pipe whose read end is closed: SIGPIPE ends cat.
CatSigpipe ==
  /\ catPc = "running" /\ catBuf > 0 /\ readEnd = "closed"
  /\ catPc' = "exited"
  /\ UNCHANGED <<srcRead, catBuf, pipeLen, readEnd, tfState, conPc, consumed, reaped, walkVars, dlVars>>

\* cat has copied every part and exits, which closes the write end.
CatExit ==
  /\ catPc = "running" /\ catBuf = 0 /\ srcRead = SrcLen
  /\ catPc' = "exited"
  /\ UNCHANGED <<srcRead, catBuf, pipeLen, readEnd, tfState, conPc, consumed, reaped, walkVars, dlVars>>

\* The tar reader takes units out of the pipe (it blocks on an empty pipe).
TarRead ==
  /\ CanRead(conPc) /\ tfState = "open" /\ pipeLen > 0
  /\ \E n \in 1..pipeLen :
       /\ consumed' = consumed + n
       /\ pipeLen' = pipeLen - n
  /\ UNCHANGED <<catPc, srcRead, catBuf, readEnd, tfState, conPc, reaped, walkVars, dlVars>>

\* The generator yields a row: it is suspended until the next pull.
Yield ==
  /\ conPc = "pulling" /\ consumed > 0
  /\ conPc' = "holding"
  /\ UNCHANGED <<catPc, srcRead, catBuf, pipeLen, readEnd, tfState, consumed, reaped, walkVars, dlVars>>

\* The consumer asks for the next row.
Pull ==
  /\ conPc = "holding"
  /\ conPc' = "pulling"
  /\ UNCHANGED <<catPc, srcRead, catBuf, pipeLen, readEnd, tfState, consumed, reaped, walkVars, dlVars>>

\* End of file on the pipe (empty, write end closed): the for loop ends and
\* the finally block starts.
Eof ==
  /\ conPc = "pulling" /\ pipeLen = 0 /\ catPc = "exited"
  /\ conPc' = "tf_close"
  /\ UNCHANGED <<catPc, srcRead, catBuf, pipeLen, readEnd, tfState, consumed, reaped, walkVars, dlVars>>

\* The consumer stops between two pulls (the limit is reached: break): the
\* generator is dropped and its finally block starts.
Break ==
  /\ conPc = "holding"
  /\ conPc' = "tf_close"
  /\ UNCHANGED <<catPc, srcRead, catBuf, pipeLen, readEnd, tfState, consumed, reaped, walkVars, dlVars>>

\* KeyboardInterrupt inside next(): the exception unwinds the generator
\* through its finally block.
KeyboardInterrupt ==
  /\ conPc = "pulling"
  /\ conPc' = "tf_close"
  /\ UNCHANGED <<catPc, srcRead, catBuf, pipeLen, readEnd, tfState, consumed, reaped, walkVars, dlVars>>

\* tf.close(): a stream reader is closed without another read.
TfClose ==
  /\ conPc = "tf_close"
  /\ tfState' = "closed"
  /\ conPc' = After("tf_close")
  /\ UNCHANGED <<catPc, srcRead, catBuf, pipeLen, readEnd, consumed, reaped, walkVars, dlVars>>

\* cat.stdout.close(): the read end is closed and what the pipe holds is lost.
StdoutClose ==
  /\ conPc = "stdout_close"
  /\ readEnd' = "closed"
  /\ pipeLen' = 0
  /\ conPc' = After("stdout_close")
  /\ UNCHANGED <<catPc, srcRead, catBuf, tfState, consumed, reaped, walkVars, dlVars>>

\* cat.wait(): returns once cat has exited.
CatWait ==
  /\ conPc = "wait" /\ catPc = "exited"
  /\ reaped' = TRUE
  /\ conPc' = After("wait")
  /\ UNCHANGED <<catPc, srcRead, catBuf, pipeLen, readEnd, tfState, consumed, walkVars, dlVars>>

CatStep == CatRead \/ CatWrite \/ CatSigpipe \/ CatExit

Finally == TfClose \/ StdoutClose \/ CatWait

NextPipe ==
  \/ PipeStart \/ CatRead \/ CatWrite \/ CatSigpipe \/ CatExit
  \/ TarRead \/ Yield \/ Pull \/ Eof \/ Break \/ KeyboardInterrupt
  \/ TfClose \/ StdoutClose \/ CatWait

\* The kernel keeps scheduling cat while it can run, and the interpreter
\* keeps executing a finally block it has entered; the consumer is free to
\* pull or to stop.
SpecPipe == InitPipe /\ [][NextPipe]_vars /\ WF_vars(CatStep) /\ WF_vars(Finally)

TornDown ==
  conPc = "done" /\ tfState = "closed" /\ readEnd = "closed" /\ catPc = "exited" /\ reaped

C9_NoReadBetweenPulls == [][conPc = "holding" => srcRead' = srcRead]_vars

\* C9 (amended): nothing is read before the first pull, and the tar reader
\* takes bytes (so an entry is decoded) only while a pull is in progress; cat
\* reads the part files on its own, between two pulls and after the last one
\* too, but never further ahead of the tar reader than the pipe buffer plus
\* one buffer of cat; and once the teardown has completed no more bytes are
\* read.
C9_BoundedReadAhead ==
  /\ [](conPc = "new" => srcRead = 0)
  /\ [][consumed' # consumed => conPc = "pulling"]_vars
  /\ [](srcRead - consumed <= PipeCap + CatChunk)
  /\ [][conPc = "done" => srcRead' = srcRead]_vars

\* C9's case: between two pulls cat has read as far ahead as it can.
C9_Witness == conPc = "holding" /\ srcRead - consumed = PipeCap + CatChunk

\* ------------------------------------------------------ C11: projection
\* The entry being walked, as decoded JSON.
CurrentData == releases[member.r][member.e].payload.data

\* A value of the point as the record would carry it unchanged: a number, a
\* string, or absent for null.
AsValue(x) ==
  CASE x.t = "num" -> FVal(x.v)
    [] x.t = "str" -> SVal(x.s)
    [] x.t = "null" -> FNone
    [] OTHER -> [k |-> "val", raw |-> x]

\* The case C11 is about: the header has an integer base timestamp and a
\* string icao, the point has at least three elements with numeric offset,
\* latitude and longitude (integers beyond the range of a double included),
\* and the point passes the filter.
Surviving(data, pt, f) ==
  /\ data.t = "obj"
  /\ Get(data, "timestamp").t = "num" /\ Get(data, "timestamp").v % 10 = 0
  /\ Get(data, "icao").t = "str"
  /\ pt.t = "list" /\ Len(pt.a) >= 3
  /\ \A i \in 1..3 : pt.a[i].t = "num"
  /\ f.lat_min <= pt.a[2].v /\ pt.a[2].v <= f.lat_max
  /\ f.lon_min <= pt.a[3].v /\ pt.a[3].v <= f.lon_max
  /\ haversine_km(f.center_lat, f.center_lon, pt.a[2].v, pt.a[3].v) <= f.max_dist_km
  /\ f.min_alt_ft.k = "none"
       \/ (Len(pt.a) > 3 /\ pt.a[4].t = "num" /\ pt.a[4].v >= f.min_alt_ft.v)

\* The record C11 describes for a surviving point, compared field by field
\* with a record r.
AsProjected(r, data, pt) ==
  /\ r.timestamp = TruncDiv(Get(data, "timestamp").v + pt.a[1].v, 10)
  /\ r.icao = SVal(Lower(Get(data, "icao").s))
  /\ r.lat = pt.a[2].v /\ r.lon = pt.a[3].v
  /\ r.altitude_baro = AsValue(At(pt, 3))
  /\ r.ground_speed = AsValue(At(pt, 4))
  /\ r.track_degrees = AsValue(At(pt, 5))
  /\ r.vertical_rate = AsValue(At(pt, 7))
  /\ r.source_type = AsValue(At(pt, 9))
  /\ r.alt_geom = AsValue(At(pt, 10))
  /\ (Len(pt.a) <= 8 \/ pt.a[9].t # "obj") =>
       (r.flight = SNone /\ r.squawk = SNone /\ r.category = SNone)

\* C11: the step of the trace loop on a surviving point yields exactly one
\* record and raises nothing; the record's timestamp is the base plus the
\* offset truncated to the second, its icao the lower-cased icao, lat and lon
\* the point's, each of altitude_baro, ground_speed, track_degrees,
\* vertical_rate, source_type and alt_geom the point's value at its index
\* when the point is long enough and absent otherwise, and flight, squawk
\* and category absent when index 8 is missing or not an object.
C11_SurvivingPointProjected ==
  [][(/\ genPc = "points" /\ mainPc = "in_next" /\ ptIdx <= Len(items)
      /\ Surviving(CurrentData, items[ptIdx], flt)
      /\ ~interrupted')
     => (/\ genPc' = "yielded"
         /\ Len(out') = Len(out) + 1
         /\ AsProjected(out'[Len(out')], CurrentData, items[ptIdx]))]_vars

\* ------------------------------------------------- download of one date
\* The specification SpecDl runs pipeline.download_date for one date, up to
\* MaxRuns times over the same data directory.  Asset i of the release is
\* the file named after it in the data directory (dest) and the file of that
\* name with ".part" added (tmp); sizes are counted in read chunks.
NoFile == [exists |-> FALSE, size |-> 0]
File(size) == [exists |-> TRUE, size |-> size]

\* dest.exists() and dest.stat().st_size == asset["size"]
AlreadyPresent(files, rel, i) == files[i].exists /\ files[i].size = rel[i]

\* sorted(out_dir.glob(...)): the assets' files found on disk, by name.
RECURSIVE Existing(_, _)
Existing(files, i) ==
  IF i > Len(files) THEN <<>>
  ELSE (IF files[i].exists THEN <<i>> ELSE <<>>) \o Existing(files, i + 1)

\* An except clause that leaves the temporary file behind.
UnlinkNothing(tmps, i) == tmps

\* tmp.unlink(missing_ok=True)
Unlink(tmps, i) == [tmps EXCEPT ![i] = NoFile]

\* download_file's `except Exception`: the temporary file is removed and
\* the exception raised again, which ends download_date too.
Except ==
  /\ tmpFiles' = Unlink(tmpFiles, asset)
  /\ dfPc' = "failed"
  /\ ddPc' = "raised"
  /\ UNCHANGED <<release, destFiles, asset, dlParts, body, buf, before, killed, runs>>

DlFrame == UNCHANGED <<walkVars, pipeVars>>

\* find_release_assets and the branch on its result: the release's assets
\* (the loop starts), none (release not found, or rate-limited: the files on
\* disk are returned), or an HTTP error that propagates.
DdLookup ==
  /\ ddPc = "start"
  /\ \E found \in {"assets", "none", "error"} :
       CASE found = "assets" ->
              ddPc' = "loop" /\ asset' = 1 /\ UNCHANGED dlParts
         [] found = "none" ->
              ddPc' = "returned" /\ dlParts' = Existing(destFiles, 1) /\ UNCHANGED asset
         [] found = "error" ->
              ddPc' = "raised" /\ UNCHANGED <<asset, dlParts>>
  /\ UNCHANGED <<release, destFiles, tmpFiles, dfPc, body, buf, before, killed, runs>>
  /\ DlFrame

\* One pass of `for asset in assets`, up to the call of download_file.
DdAsset ==
  /\ ddPc = "loop"
  /\ IF asset > Len(release)
     THEN ddPc' = "returned" /\ UNCHANGED <<dfPc, asset, dlParts, before>>
     ELSE IF AlreadyPresent(destFiles, release, asset)
     THEN /\ dlParts' = Append(dlParts, asset)
          /\ asset' = asset + 1
          /\ UNCHANGED <<ddPc, dfPc, before>>
     ELSE /\ ddPc' = "downloading"
          /\ dfPc' = "urlopen"
          /\ before' = destFiles
          /\ UNCHANGED <<asset, dlParts>>
  /\ UNCHANGED <<release, destFiles, tmpFiles, body, buf, killed, runs>>
  /\ DlFrame

\* urllib.request.urlopen(req): the response is open, its body as long as
\* declared or cut short by the server; or the request fails.
DfUrlopen ==
  /\ dfPc = "urlopen"
  /\ \/ /\ body' \in 0..release[asset]
        /\ dfPc' = "open_tmp"
        /\ UNCHANGED <<release, destFiles, tmpFiles, ddPc, asset, dlParts, buf, before, killed, runs>>
     \/ Except
  /\ DlFrame

\* open(tmp, "wb"): the temporary file is created, or emptied.
DfOpenTmp ==
  /\ dfPc = "open_tmp"
  /\ \/ /\ tmpFiles' = [tmpFiles EXCEPT ![asset] = File(0)]
        /\ dfPc' = "read"
        /\ UNCHANGED <<release, destFiles, ddPc, asset, dlParts, body, buf, before, killed, runs>>
     \/ Except
  /\ DlFrame

\* buf = resp.read(chunk); an empty buf ends the loop and the with blocks.
DfRead ==
  /\ dfPc = "read"
  /\ \/ /\ IF body = 0
           THEN dfPc' = "rename" /\ UNCHANGED <<body, buf>>
           ELSE dfPc' = "write" /\ body' = body - 1 /\ buf' = 1
        /\ UNCHANGED <<release, destFiles, tmpFiles, ddPc, asset, dlParts, before, killed, runs>>
     \/ Except
  /\ DlFrame

\* f.write(buf)
DfWrite ==
  /\ dfPc = "write"
  /\ \/ /\ tmpFiles' = [tmpFiles EXCEPT ![asset] = File(@.size + buf)]
        /\ buf' = 0
        /\ dfPc' = "read"
        /\ UNCHANGED <<release, destFiles, ddPc, asset, dlParts, body, before, killed, runs>>
     \/ Except
  /\ DlFrame

\* tmp.rename(dest)
DfRename ==
  /\ dfPc = "rename"
  /\ \/ /\ destFiles' = [destFiles EXCEPT ![asset] = tmpFiles[asset]]
        /\ tmpFiles' = [tmpFiles EXCEPT ![asset] = NoFile]
        /\ dfPc' = "done"
        /\ UNCHANGED <<release, ddPc, asset, dlParts, body, buf, before, killed, runs>>
     \/ Except
  /\ DlFrame

\* KeyboardInterrupt while download_file runs: it is not an Exception, so
\* the except clause does not run and the process ends.
DfInterrupt ==
  /\ dfPc \in {"urlopen", "open_tmp", "read", "write", "rename"}
  /\ dfPc' = "interrupted"
  /\ ddPc' = "interrupted"
  /\ killed' = TRUE
  /\ UNCHANGED <<release, destFiles, tmpFiles, asset, dlParts, body, buf, before, runs>>
  /\ DlFrame

\* download_file has returned: parts.append(dest), and the loop goes on.
DdSaved ==
  /\ ddPc = "downloading" /\ dfPc = "done"
  /\ dlParts' = Append(dlParts, asset)
  /\ asset' = asset + 1
  /\ ddPc' = "loop"
  /\ dfPc' = "idle"
  /\ UNCHANGED <<release, destFiles, tmpFiles, body, buf, before, killed, runs>>
  /\ DlFrame

\* The pipeline is started again over the same data directory.
DdRerun ==
  /\ ddPc \in {"returned", "raised", "interrupted"}
  /\ runs < MaxRuns
  /\ runs' = runs + 1
  /\ ddPc' = "start" /\ dfPc' = "idle" /\ asset' = 0 /\ dlParts' = <<>>
  /\ body' = 0 /\ buf' = 0 /\ before' = <<>>
  /\ UNCHANGED <<release, destFiles, tmpFiles, killed>>
  /\ DlFrame

\* The sizes a file under an asset's name may have before the first run:
\* none, empty, or any size up to the largest.
DiskFiles == {NoFile} \cup {File(n) : n \in 0..MaxSize}

InitDl ==
  /\ PipeFrame /\ PipeIdle
  /\ \E n \in 1..MaxAssets :
       /\ release \in [1..n -> 1..MaxSize]
       /\ destFiles \in [1..n -> DiskFiles]
       /\ tmpFiles = [i \in 1..n |-> NoFile]
  /\ ddPc = "start" /\ dfPc = "idle" /\ asset = 0 /\ dlParts = <<>>
  /\ body = 0 /\ buf = 0 /\ before = <<>> /\ killed = FALSE /\ runs = 1

NextDl ==
  \/ DdLookup \/ DdAsset \/ DdSaved \/ DdRerun
  \/ DfUrlopen \/ DfOpenTmp \/ DfRead \/ DfWrite \/ DfRename \/ DfInterrupt

SpecDl == InitDl /\ [][NextDl]_vars

\* C12: every path download_date returns names a file that exists with
\* exactly the size the release declares for it, whether the file was
\* already there, was just downloaded, or the lookup found no assets and the
\* files on disk were taken; and a file already present with the declared
\* size is not downloaded again.
C12_ReturnedPartsVerified ==
  /\ ddPc = "returned" =>
       \A k \in 1..Len(dlParts) : AlreadyPresent(destFiles, release, dlParts[k])
  /\ ddPc = "downloading" => ~AlreadyPresent(before, release, asset)

====
